---- MODULE Spec2Model ----
(***************************************************************************)
(* Frame loop of pong-rust (src/main.rs): the window's event queue, the    *)
(* PongGameState snapshot, from_previous, loop_events and main's while     *)
(* loop.                                                                   *)
(*                                                                         *)
(* Coordinates are f32 in the source.  They are modelled in fixed point,   *)
(* in tenths of a pixel (Px), and the ball velocity in tenths.  For a      *)
(* velocity that is a multiple of 0.1 the f32 product velocity * 5.0       *)
(* rounds to the exact multiple of 0.5, and sums of multiples of 0.5 in    *)
(* the window's range are exact in f32, so the fixed-point arithmetic is   *)
(* the f32 arithmetic on these inputs.                                     *)
(***************************************************************************)
EXTENDS Integers, Sequences, FiniteSets, TLC

\* ---------------------------------------------------------------- bounds
MaxFrames == 3

MaxEvents == 3

MaxQueue == 2

\* the run of down-key presses: events delivered
MaxDownKeys == 7

\* the long run: iterations, events, and the iterations events arrive in
MaxLongFrames == 80

MaxLongEvents == 2

MaxInputFrames == 2

\* ------------------------------------------------------------- constants
Px(n) == 10 * n

WINDOW_WIDTH == 1024

WINDOW_HEIGHT == 768

PADDLE_WIDTH == 20

PADDLE_HEIGHT == 50

PADDLE_PADDING == 30

LHS_START_POS_X == 0 + PADDLE_PADDING

RHS_START_POS_X == WINDOW_WIDTH - PADDLE_PADDING - PADDLE_WIDTH

bottom_start_pos_y == WINDOW_HEIGHT - PADDLE_PADDING - PADDLE_HEIGHT

PADDLE_VELOCITY == 5

UP_VECTOR == [x |-> Px(0), y |-> Px(1 * PADDLE_VELOCITY)]

DOWN_VECTOR == [x |-> Px(0), y |-> Px((-1) * PADDLE_VELOCITY)]

BALL_INITIAL_POSITION == [x |-> Px(WINDOW_WIDTH) \div 2, y |-> Px(WINDOW_HEIGHT) \div 2]

BALL_VELOCITY == 5

START_POSITIONS ==
  << [x |-> Px(LHS_START_POS_X), y |-> Px(0 + PADDLE_PADDING)],
     [x |-> Px(RHS_START_POS_X), y |-> Px(0 + PADDLE_PADDING)],
     [x |-> Px(LHS_START_POS_X), y |-> Px(bottom_start_pos_y)],
     [x |-> Px(RHS_START_POS_X), y |-> Px(bottom_start_pos_y)] >>

\* enum PlayerId, by discriminant
PlayerId == {0, 1}

\* key codes a KeyPressed event can carry: the three the transition matches
\* and one it does not
Keys == {"Escape", "K", "J", "A"}

NoCode == "None"

\* events poll_event can return from the queue; MouseMoved stands for every
\* kind that is neither Closed nor KeyPressed
Events ==
  {[type |-> "Closed", code |-> NoCode], [type |-> "MouseMoved", code |-> NoCode]}
    \cup {[type |-> "KeyPressed", code |-> k] : k \in Keys}

\* velocities drawn by create_ball, in tenths, from [-1, 1)
Velocities == {[x |-> 4, y |-> -7], [x |-> -10, y |-> 9], [x |-> 0, y |-> -10]}

\* ----------------------------------------------------------------- state
VARIABLES
  isOpen,    \* window.is_open()
  queue,     \* the window's pending events
  state,     \* the PongGameState snapshot: paddles, player_id, ball, keys
  pc,        \* position of main's loop
  frame,     \* number of iterations of the while loop entered
  drawn,     \* draw calls since the last window.clear (0 = ball, i = paddle i)
  displays,  \* number of window.display calls
  prev,      \* the snapshot handed to the latest from_previous
  polled,    \* events returned by poll_event in the latest loop_events call
  sent       \* number of events delivered to the window

vars == <<isOpen, queue, state, pc, frame, drawn, displays, prev, polled, sent>>

\* --------------------------------------------------------------- helpers
VecAdd(a, b) == [x |-> a.x + b.x, y |-> a.y + b.y]

VecScale(v, k) == [x |-> v.x * k, y |-> v.y * k]

ApplyKey_Clamped(pos, key) ==
  LET y == CASE key = "K" -> pos.y + UP_VECTOR.y
             [] key = "J" -> pos.y + DOWN_VECTOR.y
             [] OTHER -> pos.y
  IN [pos EXCEPT !.y = IF y < 0 THEN 0
                       ELSE IF y > Px(WINDOW_HEIGHT - PADDLE_HEIGHT)
                         THEN Px(WINDOW_HEIGHT - PADDLE_HEIGHT)
                         ELSE y]

\* one arm of the match in from_previous, for the paddle
ApplyKey(pos, key) ==
  CASE key = "K" -> VecAdd(pos, UP_VECTOR)
    [] key = "J" -> VecAdd(pos, DOWN_VECTOR)
    [] OTHER -> pos

MovePaddle_LastWins(pos, ks) ==
  IF ks = <<>> THEN pos ELSE ApplyKey(pos, ks[Len(ks)])

\* the for loop over state.keys, for the paddle
RECURSIVE MovePaddle(_, _)
MovePaddle(pos, ks) ==
  IF ks = <<>> THEN pos ELSE MovePaddle(ApplyKey(pos, Head(ks)), Tail(ks))

ClosesWindow_Never(ks) == FALSE

ClosesWindow_Always(ks) == TRUE

\* the for loop over state.keys, for the window: Escape calls window.close()
ClosesWindow(ks) == \E i \in DOMAIN ks : ks[i] = "Escape"

AdvanceBall_Unscaled(b) == [b EXCEPT !.pos = VecAdd(b.pos, b.velocity)]

Clamp(v, lo, hi) == IF v < lo THEN lo ELSE IF v > hi THEN hi ELSE v

AdvanceBall_Clamped(b) ==
  [b EXCEPT !.pos =
     [x |-> Clamp(b.pos.x + b.velocity.x * BALL_VELOCITY, 0, Px(WINDOW_WIDTH)),
      y |-> Clamp(b.pos.y + b.velocity.y * BALL_VELOCITY, 0, Px(WINDOW_HEIGHT))]]

AdvanceBall_Twice(b) ==
  [b EXCEPT !.pos = VecAdd(b.pos, VecScale(b.velocity, 2 * BALL_VELOCITY))]

AdvanceBall_Bounce(b) ==
  [b EXCEPT !.pos = VecAdd(b.pos, VecScale(b.velocity, BALL_VELOCITY)),
            !.velocity = VecScale(b.velocity, -1)]

\* state.ball.drawable.move(&(velocity * BALL_VELOCITY))
AdvanceBall(b) ==
  [b EXCEPT !.pos = VecAdd(b.pos, VecScale(b.velocity, BALL_VELOCITY))]

ClearKeys_Keep(ks) == ks

\* state.keys.clear()
ClearKeys(ks) == <<>>

PushKey_Drop(ks, code) == ks

\* state.keys.push(code)
PushKey(ks, code) == Append(ks, code)

NextSnapshot_NextPlayer(s) ==
  [s EXCEPT !.paddles[s.player_id + 1].pos = MovePaddle(@, s.keys),
            !.ball = AdvanceBall(s.ball),
            !.keys = ClearKeys(s.keys),
            !.player_id = s.player_id + 1]

NextSnapshot_MoveAll(s) ==
  [s EXCEPT !.paddles = [i \in DOMAIN s.paddles |->
                           [s.paddles[i] EXCEPT !.pos = MovePaddle(@, s.keys)]],
            !.ball = AdvanceBall(s.ball),
            !.keys = ClearKeys(s.keys)]

\* the snapshot returned by from_previous
NextSnapshot(s) ==
  [s EXCEPT !.paddles[s.player_id + 1].pos = MovePaddle(@, s.keys),
            !.ball = AdvanceBall(s.ball),
            !.keys = ClearKeys(s.keys)]

\* create_paddles: the sprites of the map, in the map's iteration order,
\* zipped with START_POSITIONS
create_paddles(order) ==
  [i \in 1..Len(order) |-> [pos |-> START_POSITIONS[i], tex |-> order[i]]]

\* iteration orders of a HashMap keyed by the two player ids
SpriteOrders == {<<0, 1>>, <<1, 0>>}

create_ball(v) == [pos |-> BALL_INITIAL_POSITION, velocity |-> v]

new_default(paddles_param, player_id_param, ball_param) ==
  [keys |-> <<>>, paddles |-> paddles_param, player_id |-> player_id_param,
   ball |-> ball_param]

\* ------------------------------------------------------------------ Init
Init ==
  /\ isOpen = TRUE
  /\ queue = <<>>
  /\ \E order \in SpriteOrders, v \in Velocities :
       state = new_default(create_paddles(order), 0, create_ball(v))
  /\ 0 < Len(state.paddles)
  /\ prev = state
  /\ pc = "test"
  /\ frame = 0
  /\ drawn = <<>>
  /\ displays = 0
  /\ polled = <<>>
  /\ sent = 0

\* --------------------------------------------------------------- actions
\* the user or the window system queues an event on the open window
DeliverWithin(maxEvents, lastFrame) ==
  /\ isOpen
  /\ pc # "done"
  /\ frame <= lastFrame
  /\ sent < maxEvents
  /\ Len(queue) < MaxQueue
  /\ \E e \in Events : queue' = Append(queue, e)
  /\ sent' = sent + 1
  /\ UNCHANGED <<isOpen, state, pc, frame, drawn, displays, prev, polled>>

LoopTest_Forever ==
  /\ pc = "test"
  /\ frame < MaxFrames
  /\ pc' = "clear"
  /\ frame' = frame + 1
  /\ UNCHANGED <<isOpen, queue, state, drawn, displays, prev, polled, sent>>

\* while state.window.is_open()
LoopTestUpTo(maxFrames) ==
  /\ pc = "test"
  /\ IF isOpen
       THEN /\ frame < maxFrames
            /\ pc' = "clear"
            /\ frame' = frame + 1
       ELSE /\ pc' = "done"
            /\ frame' = frame
  /\ UNCHANGED <<isOpen, queue, state, drawn, displays, prev, polled, sent>>

LoopTest == LoopTestUpTo(MaxFrames)

LoopTestLong == LoopTestUpTo(MaxLongFrames)

Deliver == DeliverWithin(MaxEvents, MaxFrames)

DeliverEarly == DeliverWithin(MaxLongEvents, MaxInputFrames)

\* state.window.clear(&clear_color)
Clear ==
  /\ pc = "clear"
  /\ drawn' = <<>>
  /\ pc' = "transition"
  /\ UNCHANGED <<isOpen, queue, state, frame, displays, prev, polled, sent>>

\* loop_events, first statement: state = PongGameState::from_previous(prev)
from_previous ==
  /\ pc = "transition"
  /\ prev' = state
  /\ state' = NextSnapshot(state)
  /\ isOpen' = (isOpen /\ ~ClosesWindow(state.keys))
  /\ polled' = <<>>
  /\ pc' = "poll"
  /\ UNCHANGED <<queue, frame, drawn, displays, sent>>

PollClosed_Toggle ==
  /\ pc = "poll"
  /\ queue # <<>>
  /\ Head(queue).type = "Closed"
  /\ queue' = Tail(queue)
  /\ polled' = Append(polled, Head(queue))
  /\ isOpen' = ~isOpen
  /\ UNCHANGED <<state, pc, frame, drawn, displays, prev, sent>>

\* loop_events, one turn of the loop: poll_event returns Closed
PollClosed ==
  /\ pc = "poll"
  /\ queue # <<>>
  /\ Head(queue).type = "Closed"
  /\ queue' = Tail(queue)
  /\ polled' = Append(polled, Head(queue))
  /\ isOpen' = FALSE
  /\ UNCHANGED <<state, pc, frame, drawn, displays, prev, sent>>

\* loop_events, one turn of the loop: poll_event returns KeyPressed
PollKeyPressed ==
  /\ pc = "poll"
  /\ queue # <<>>
  /\ Head(queue).type = "KeyPressed"
  /\ queue' = Tail(queue)
  /\ polled' = Append(polled, Head(queue))
  /\ state' = [state EXCEPT !.keys = PushKey(@, Head(queue).code)]
  /\ UNCHANGED <<isOpen, pc, frame, drawn, displays, prev, sent>>

PollOther_Flush ==
  /\ pc = "poll"
  /\ queue # <<>>
  /\ Head(queue).type \notin {"Closed", "KeyPressed"}
  /\ queue' = <<>>
  /\ polled' = Append(polled, Head(queue))
  /\ pc' = "draw"
  /\ UNCHANGED <<isOpen, state, frame, drawn, displays, prev, sent>>

\* loop_events, last turn of the loop: poll_event returns an event of another
\* kind, which the wildcard arm takes as the end of the queue
PollOther ==
  /\ pc = "poll"
  /\ queue # <<>>
  /\ Head(queue).type \notin {"Closed", "KeyPressed"}
  /\ queue' = Tail(queue)
  /\ polled' = Append(polled, Head(queue))
  /\ pc' = "draw"
  /\ UNCHANGED <<isOpen, state, frame, drawn, displays, prev, sent>>

\* loop_events, last turn of the loop: poll_event returns NoEvent.  An empty
\* queue returns it; a closed window may return it whatever was queued (the
\* windowing library pops events only from a window that is open).
PollNoEvent ==
  /\ pc = "poll"
  /\ queue = <<>> \/ ~isOpen
  /\ pc' = "draw"
  /\ UNCHANGED <<isOpen, queue, state, frame, drawn, displays, prev, polled, sent>>

\* one turn of main's for loop over state.paddles: the ball, then the paddle
DrawPaddle ==
  /\ pc = "draw"
  /\ LET i == (Len(drawn) \div 2) + 1
     IN /\ drawn' = drawn \o <<0, i>>
        /\ pc' = IF i = Len(state.paddles) THEN "display" ELSE "draw"
  /\ UNCHANGED <<isOpen, queue, state, frame, displays, prev, polled, sent>>

\* state.window.display()
Display ==
  /\ pc = "display"
  /\ displays' = displays + 1
  /\ pc' = "test"
  /\ UNCHANGED <<isOpen, queue, state, frame, drawn, prev, polled, sent>>

Next ==
  \/ Deliver
  \/ LoopTest
  \/ Clear
  \/ from_previous
  \/ PollClosed
  \/ PollKeyPressed
  \/ PollOther
  \/ PollNoEvent
  \/ DrawPaddle
  \/ Display

Spec == Init /\ [][Next]_vars

\* the frame loop run for MaxLongFrames iterations, long enough for the ball
\* to cross the window's edge, with input in its first iterations only
NextLong ==
  \/ DeliverEarly
  \/ LoopTestLong
  \/ Clear
  \/ from_previous
  \/ PollClosed
  \/ PollKeyPressed
  \/ PollOther
  \/ PollNoEvent
  \/ DrawPaddle
  \/ Display

SpecLong == Init /\ [][NextLong]_vars

\* the user presses the down key (J) again
DeliverDown ==
  /\ isOpen
  /\ pc # "done"
  /\ sent < MaxDownKeys
  /\ Len(queue) < MaxQueue
  /\ queue' = Append(queue, [type |-> "KeyPressed", code |-> "J"])
  /\ sent' = sent + 1
  /\ UNCHANGED <<isOpen, state, pc, frame, drawn, displays, prev, polled>>

\* the frame loop with a run of down-key presses, long enough for the
\* controlled paddle to cross the window's top edge
NextPaddle ==
  \/ DeliverEarly
  \/ DeliverDown
  \/ LoopTest
  \/ Clear
  \/ from_previous
  \/ PollClosed
  \/ PollKeyPressed
  \/ PollOther
  \/ PollNoEvent
  \/ DrawPaddle
  \/ Display

SpecPaddle == Init /\ [][NextPaddle]_vars

\* iterations of the fair run: events arrive up to iteration MaxInputFrames,
\* every later iteration polls at least one queued event, and the iteration
\* after the last poll applies the buffer
LiveFrames == MaxInputFrames + MaxQueue + 2

LoopTestLive == LoopTestUpTo(LiveFrames)

\* the steps of the program itself
ProgramLive ==
  \/ LoopTestLive
  \/ Clear
  \/ from_previous
  \/ PollClosed
  \/ PollKeyPressed
  \/ PollOther
  \/ PollNoEvent
  \/ DrawPaddle
  \/ Display

NextLive ==
  \/ DeliverEarly
  \/ ProgramLive

\* the single thread of main always takes its next step
SpecLive == Init /\ [][NextLive]_vars /\ WF_vars(ProgramLive)

\* ------------------------------------------------- notions of the claims
\* index of the controlled paddle in the paddle collection
pid == state.player_id + 1

\* number of transitions performed so far
nTrans == IF pc \in {"clear", "transition"} THEN frame - 1 ELSE frame

IsKeyPressed(e) == e.type = "KeyPressed"

RECURSIVE KeyCodes(_)
\* the key codes of the KeyPressed events of a sequence of events, in order
KeyCodes(evs) ==
  IF evs = <<>> THEN <<>>
  ELSE IF IsKeyPressed(Head(evs)) THEN <<Head(evs).code>> \o KeyCodes(Tail(evs))
  ELSE KeyCodes(Tail(evs))

Count(ks, k) == Cardinality({i \in DOMAIN ks : ks[i] = k})

PolledClosed == \E i \in DOMAIN polled : polled[i].type = "Closed"

PolledEscape == \E i \in DOMAIN polled : polled[i] = [type |-> "KeyPressed", code |-> "Escape"]

\* the poll cycle of the current iteration has ended
AfterPollCycle == pc \in {"draw", "display"}

C2_NoDrawWhileClosed ==
  [][~isOpen => (drawn' = drawn /\ displays' = displays)]_vars

\* C2 (amended): once isOpen is false the loop enters no further iteration:
\* the iteration in which the window was closed completes (its draw calls and
\* its display included), the loop test then exits, and nothing is drawn or
\* displayed after the exit.
C2_NoIterationAfterClose ==
  [][(~isOpen => (frame' = frame /\ pc' # "clear"))
     /\ (pc = "done" => (drawn' = drawn /\ displays' = displays))]_vars

C2_Witness ==
  /\ pc = "done"
  /\ ~isOpen
  /\ Len(drawn) = 2 * Len(state.paddles)
  /\ displays = frame

C4_DrainsAll ==
  [][(pc = "poll" /\ pc' = "draw" /\ isOpen) => queue' = <<>>]_vars

\* C5: for a buffer of up (K) and down (J) codes only, with u up-keys and d
\* down-keys, one transition displaces the controlled paddle by
\* u*UP_VECTOR + d*DOWN_VECTOR.
C5_Additive ==
  (nTrans >= 1 /\ \A i \in DOMAIN prev.keys : prev.keys[i] \in {"K", "J"}) =>
    state.paddles[pid].pos =
      VecAdd(prev.paddles[pid].pos,
             VecAdd(VecScale(UP_VECTOR, Count(prev.keys, "K")),
                    VecScale(DOWN_VECTOR, Count(prev.keys, "J"))))

C5_Witness ==
  /\ nTrans >= 1
  /\ Len(prev.keys) = 3
  /\ Count(prev.keys, "K") = 2
  /\ Count(prev.keys, "J") = 1
  /\ state.paddles[pid].pos = VecAdd(prev.paddles[pid].pos, UP_VECTOR)

\* C6: immediately after every transition the buffered input is empty,
\* whatever it held before the transition.
C6_BufferEmptyAfterTransition ==
  (pc = "poll" /\ polled = <<>>) => state.keys = <<>>

C6_Witness ==
  /\ pc = "poll"
  /\ polled = <<>>
  /\ Len(prev.keys) >= 2
  /\ state.keys = <<>>

\* C7: a transition of a snapshot with an empty buffer leaves every paddle
\* where it was and moves the ball once, by velocity times the speed constant.
C7_EmptyBuffer ==
  (nTrans >= 1 /\ prev.keys = <<>>) =>
    /\ \A i \in DOMAIN state.paddles : state.paddles[i].pos = prev.paddles[i].pos
    /\ state.ball.pos =
         VecAdd(prev.ball.pos, VecScale(prev.ball.velocity, BALL_VELOCITY))

C7_Witness ==
  /\ nTrans = 2
  /\ prev.keys = <<>>
  /\ prev.ball.velocity = [x |-> 4, y |-> -7]
  /\ prev.ball.pos # BALL_INITIAL_POSITION
  /\ state.ball.pos # prev.ball.pos

\* C8: no step changes the ball's velocity: it stays the velocity assigned at
\* session start.
C8_VelocityConstant ==
  [][state'.ball.velocity = state.ball.velocity]_vars

C8_Witness ==
  /\ nTrans >= 2
  /\ Len(prev.keys) > 0
  /\ state.ball.velocity = [x |-> -10, y |-> 9]
  /\ state.ball.pos # BALL_INITIAL_POSITION

\* C9 (as stated): a transition whose buffer is the single key up (K)
\* decreases the controlled paddle's y-coordinate by PADDLE_VELOCITY and
\* leaves its x-coordinate unchanged.
C9_UpDecreasesY ==
  (nTrans >= 1 /\ prev.keys = <<"K">>) =>
    /\ state.paddles[pid].pos.y = prev.paddles[pid].pos.y - Px(PADDLE_VELOCITY)
    /\ state.paddles[pid].pos.x = prev.paddles[pid].pos.x

\* C10: every transition, whatever keys are buffered, advances the ball by
\* velocity times the speed constant, so after n transitions the ball is at
\* start + n * BALL_VELOCITY * velocity.
C10_BallAdvance ==
  /\ state.ball.pos =
       VecAdd(BALL_INITIAL_POSITION,
              VecScale(state.ball.velocity, nTrans * BALL_VELOCITY))
  /\ nTrans >= 1 =>
       state.ball.pos =
         VecAdd(prev.ball.pos, VecScale(prev.ball.velocity, BALL_VELOCITY))
  /\ (nTrans = 1 /\ state.ball.velocity = [x |-> 4, y |-> -7]) =>
       state.ball.pos = [x |-> Px(514), y |-> Px(380) + 5]

\* the ball has left the window through its top edge, in a run in which keys
\* were buffered and applied
C10_Witness ==
  /\ nTrans = MaxLongFrames
  /\ state.ball.velocity = [x |-> 0, y |-> -10]
  /\ state.ball.pos.y < 0
  /\ state.paddles[pid].pos # START_POSITIONS[pid]


\* C11 (as stated): in a frame's draw phase the ball is drawn first and then
\* every paddle in the order of the paddle collection: the frame's draw calls
\* are ball, p0, ..., pk, and no ball draw follows a paddle draw.
C11_BallThenPaddles ==
  /\ \A i, j \in DOMAIN drawn : (i < j /\ drawn[i] # 0) => drawn[j] # 0
  /\ pc = "display" =>
       drawn = <<0>> \o [i \in 1..Len(state.paddles) |-> i]

\* C12: in every reachable snapshot the controlling player's id is a valid
\* index into the paddle collection, and no transition changes the player id
\* or the number of paddles.
C12_PlayerIdValid ==
  /\ state.player_id \in 0..(Len(state.paddles) - 1)
  /\ state.player_id = prev.player_id
  /\ Len(state.paddles) = Len(prev.paddles)

C12_Witness ==
  /\ nTrans >= 2
  /\ Len(prev.keys) >= 2
  /\ state.player_id = 0
  /\ Len(state.paddles) = 2

\* C13: a transition changes nothing outside the snapshot except the window's
\* open flag, and it closes the window only when the buffer holds Escape; it
\* leaves the player id and the number of paddles as they were.
C13_TransitionEffect ==
  [][(pc = "transition" /\ pc' = "poll") =>
       /\ queue' = queue /\ drawn' = drawn /\ displays' = displays
       /\ frame' = frame /\ sent' = sent
       /\ isOpen' = (isOpen /\ Count(state.keys, "Escape") = 0)
       /\ state'.player_id = state.player_id
       /\ Len(state'.paddles) = Len(state.paddles)
       /\ \A i \in DOMAIN state.paddles : state'.paddles[i].tex = state.paddles[i].tex
       /\ prev' = state]_vars

C13_Witness ==
  /\ pc = "poll"
  /\ polled = <<>>
  /\ isOpen
  /\ queue # <<>>
  /\ Len(prev.keys) >= 2
  /\ Count(prev.keys, "Escape") = 0
  /\ state.paddles[pid].pos # prev.paddles[pid].pos


\* the step is the transition (from_previous) of an iteration
TransitionStep == pc = "transition" /\ pc' = "poll"

\* the displacement a buffer of keys gives the controlled paddle
Displacement(ks) ==
  VecAdd(VecScale(UP_VECTOR, Count(ks, "K")), VecScale(DOWN_VECTOR, Count(ks, "J")))

C15_OnlyControlledPaddleMoves ==
  /\ [](\A i \in DOMAIN state.paddles :
          i # pid => state.paddles[i].pos = START_POSITIONS[i])
  /\ [][~TransitionStep => state'.paddles = state.paddles]_vars

C15_Witness ==
  /\ nTrans >= 2
  /\ state.paddles[pid].pos = VecAdd(START_POSITIONS[pid], VecScale(DOWN_VECTOR, 2))
  /\ state.paddles[2].pos = START_POSITIONS[2]

\* C16 (as stated): in the initial snapshot the paddle at index p is built
\* from p's own texture and stands at START_POSITIONS[p], whatever the
\* iteration order of the maps; the ball is at the window center and the
\* buffer is empty.
C16_InitialMapping ==
  frame = 0 =>
    /\ \A i \in DOMAIN state.paddles :
         /\ state.paddles[i].tex = i - 1
         /\ state.paddles[i].pos = START_POSITIONS[i]
    /\ state.ball.pos = BALL_INITIAL_POSITION
    /\ state.keys = <<>>

\* number of Closed events polled in the current poll cycle
ClosedPolled == Cardinality({i \in DOMAIN polled : polled[i].type = "Closed"})

\* C18: once isOpen is false it stays false, and a further close request (a
\* Closed event polled on the closed window, a second Escape in the buffer)
\* changes nothing else.
C18_CloseMonotonic ==
  [][/\ ~isOpen => ~isOpen'
     /\ (pc = "poll" /\ ClosedPolled' > ClosedPolled) =>
          (~isOpen' /\ UNCHANGED <<state, pc, frame, drawn, displays, prev>>)
     /\ (TransitionStep /\ Count(state.keys, "Escape") >= 1) => ~isOpen']_vars

C18_Witness ==
  /\ pc = "draw"
  /\ ~isOpen
  /\ ClosedPolled = 2


\* a close request is waiting in the window's queue
CloseRequested ==
  \E i \in DOMAIN queue :
    \/ queue[i].type = "Closed"
    \/ queue[i] = [type |-> "KeyPressed", code |-> "Escape"]

\* C17: if a close request (Closed event or Escape key press) is delivered to
\* the window's queue the loop eventually exits, and the loop exits only after
\* a close request: while none has been polled the loop stays running.
C17_Terminates ==
  /\ CloseRequested ~> (pc = "done")
  /\ [](pc = "done" => (ClosedPolled > 0 \/ Count(prev.keys, "Escape") > 0))
  /\ []((ClosedPolled = 0 /\ Count(prev.keys, "Escape") = 0) => isOpen)

C17_Witness ==
  /\ pc = "done"
  /\ frame = MaxInputFrames + MaxQueue + 1
  /\ ClosedPolled = 0
  /\ prev.keys = <<"Escape">>

\* number of events the program has taken from the queue; the n-th event
\* delivered is waiting in the queue while Consumed < n <= sent
Consumed == sent - Len(queue)

\* C20: while the loop keeps running no key press is lost or reordered: a poll
\* takes the head of the queue and buffers key codes in queue order; an event
\* left in the queue when a drain stops is polled by a later poll cycle; and
\* the keys a poll cycle buffered are applied, once, by the next transition.
C20_NoKeyLost ==
  /\ [][/\ (pc = "poll" /\ polled' # polled) =>
             /\ polled' \o queue' = polled \o queue
             /\ state'.keys = KeyCodes(polled')
        /\ (queue' # queue /\ polled' = polled) =>
             \E e \in Events : queue' = Append(queue, e)
        /\ TransitionStep =>
             /\ prev'.keys = KeyCodes(polled)
             /\ state'.paddles[pid].pos =
                  VecAdd(state.paddles[pid].pos, Displacement(KeyCodes(polled)))
             /\ state'.keys = <<>>]_vars
  /\ \A n \in 1..MaxLongEvents :
       (Consumed < n /\ n <= sent) ~> (Consumed >= n \/ ~isOpen)
  /\ (AfterPollCycle /\ state.keys # <<>>) ~>
       (~isOpen \/ (pc = "poll" /\ polled = <<>> /\ prev.keys # <<>>))

\* a drain stopped at an event of another kind and left a key press queued
C20_Witness ==
  /\ pc = "draw"
  /\ isOpen
  /\ polled = <<[type |-> "MouseMoved", code |-> NoCode]>>
  /\ queue = <<[type |-> "KeyPressed", code |-> "K"]>>
  /\ state.keys = <<>>


\* C19: no paddle ever leaves its start x-coordinate; the controlled paddle's
\* y-coordinate differs from its start y by a multiple of PADDLE_VELOCITY, and
\* every transition displaces it by the full sum of its keys' translations,
\* with no clamping to the window.
C19_PaddleColumn ==
  /\ \A i \in DOMAIN state.paddles : state.paddles[i].pos.x = START_POSITIONS[i].x
  /\ (state.paddles[pid].pos.y - START_POSITIONS[pid].y) % Px(PADDLE_VELOCITY) = 0
  /\ nTrans >= 1 =>
       state.paddles[pid].pos =
         VecAdd(prev.paddles[pid].pos, Displacement(prev.keys))

\* the controlled paddle is above the window's top edge
C19_Witness ==
  /\ nTrans >= 1
  /\ state.paddles[pid].pos.y < 0
  /\ state.paddles[pid].pos.x = Px(LHS_START_POS_X)

====
